---------------------------- MODULE Spec2Model ----------------------------
(***************************************************************************)
(* Model of src/main.c: a button on GPIO 9 whose edge interrupts are       *)
(* debounced and handed to the main loop through a 32-slot queue; on every *)
(* drained press the main loop runs the AT sequence against the LoRa       *)
(* module on UART0 (AT, AT+VER, AT+ID=DevEui) and prints the DevEui with   *)
(* its colons removed.                                                     *)
(*                                                                         *)
(* Text is modelled as sequences of one-character strings; Str turns such  *)
(* a sequence into a string where a whole line is logged or compared.      *)
(***************************************************************************)
EXTENDS Integers, Sequences, FiniteSets, TLC

(***************************************************************************)
(* Program constants.                                                      *)
(***************************************************************************)
SW_0 == 9
LINE_LEN == 128
DEBOUNCE_MS == 20
\* (mutant) ini_button asks queue_init for twice the slots.
QUEUE_LEN_doubled == 2 * 32
QUEUE_LEN == 32
CONN_TRIES == 5
HEX_LEN == 5

EVENT_BUTTON == "EVENT_BUTTON"
GPIO_IRQ_EDGE_FALL == "EDGE_FALL"
GPIO_IRQ_EDGE_RISE == "EDGE_RISE"

CMD_AT == "AT\r\n"
CMD_VERSION == "AT+VER\r\n"
CMD_DEV_EUI == "AT+ID=DevEui\r\n"

MSG_CONNECTED == "Connected to LoRa module"
MSG_NOT_RESPONDING == "Module not responding"

CR == "\r"
LF == "\n"

(***************************************************************************)
(* Bounds of the model.                                                    *)
(***************************************************************************)
\* SpecQueue: the clock runs for MaxBurst debounce periods, enough for the
\* interrupt to fill the queue and to publish into the full queue.
MaxBurst == 34
\* SpecQueue: presses the interrupt accepts (every other accepted edge is a
\* release).
MaxPresses == 1
\* SpecDebounce: the clock runs up to MaxFineTime ms.
MaxFineTime == 60
\* Spec: button edges during the run.
MaxEdges == 1
\* SpecFormat: length of the generated identity payloads.
MaxPayloadLen == 7
\* SpecRead: length of the generated inbound byte streams.
MaxStreamLen == 4

VARIABLES
    events,     \* static queue_t events: the queued event_t, oldest first
    last_ms,    \* static uint32_t last_ms of gpio_callback
    pc,         \* position of the main loop
    event,      \* main's local event_t, written by queue_try_remove
    i,          \* check_connection's attempt counter
    stage,      \* which stage called read_line: "cc", "cv" or "cd"
    line,       \* char line[LINE_LEN] of the running stage, up to the null
    rl_ok,      \* what read_line returned to the stage
    rx,         \* UART0 receive side: bytes the module sent, not yet read
    tx,         \* history: commands the running sequence wrote to UART0
    out,        \* history: lines the running sequence printed on the console
    clock,      \* ms since boot at the latest interrupt
    irq,        \* the latest interrupt: its mask, its now and what it did
    published,  \* history: events queue_try_add accepted, in order
    drained,    \* history: events queue_try_remove returned, in order
    dropped,    \* history: number of queue_try_add calls that found the queue full
    pending,    \* the module: commands written that it has not answered
    reads,      \* history: what each read_line of the running sequence returned
    got,        \* history: the bytes uart_getc returned to the running read_line
    stored,     \* history: the highest index of buffer the running read_line
                \* has written, -1 while it has written none
    late,       \* history: the line being received holds bytes of a reply to
                \* an earlier command than the last one written
    started,    \* history: number of sequences that have written their first
                \* command
    conv        \* convert_and_print's locals and what it has printed so far

vars == <<events, last_ms, pc, event, i, stage, line, rl_ok, rx, tx, out,
          clock, irq, published, drained, dropped, pending, reads, got,
          stored, late, started, conv>>

\* What the interrupt handler leaves alone, and what the main loop does.
isrOnly == <<last_ms, clock, irq, published, dropped>>
mainOnly == <<pc, event, i, stage, line, rl_ok, tx, out, drained, reads>>

(***************************************************************************)
(* Text helpers.                                                           *)
(***************************************************************************)
RECURSIVE Str(_)
Str(s) == IF s = <<>> THEN "" ELSE Head(s) \o Str(Tail(s))

\* strstr(hay, needle) != NULL
StrStr(hay, needle) ==
    \E k \in 1..(Len(hay) - Len(needle) + 1) :
        SubSeq(hay, k, k + Len(needle) - 1) = needle

\* The sequences of at most n elements of S.
RECURSIVE SeqsUpTo(_, _)
SeqsUpTo(S, n) ==
    IF n = 0 THEN {<<>>}
    ELSE LET shorter == SeqsUpTo(S, n - 1)
         IN  shorter \cup {Append(q, x) : q \in shorter, x \in S}

TOK_OK == <<"O", "K">>
TOK_VER == <<"V", "E", "R">>
TOK_DEVEUI == <<"D", "e", "v", "E", "u", "i">>

(***************************************************************************)
(* The event queue (pico/util/queue.h), as main.c uses it: a FIFO of at    *)
(* most QUEUE_LEN elements whose try-operations never block.               *)
(***************************************************************************)
queue_init == <<>>

queue_is_full(q) == Len(q) >= QUEUE_LEN

queue_try_add(q, e) == IF queue_is_full(q) THEN q ELSE Append(q, e)

queue_try_remove(q) == IF q = <<>> THEN q ELSE Tail(q)

press_event == [type |-> EVENT_BUTTON, data |-> 1]
release_event == [type |-> EVENT_BUTTON, data |-> 0]

(***************************************************************************)
(* gpio_callback: the interrupt handler.  It runs to completion between    *)
(* two steps of the main loop.  now is read once; the rising edge is       *)
(* tested first and the falling edge is tested against the last_ms the     *)
(* rising edge may just have written.                                      *)
(***************************************************************************)
\* (mutant) the window test written with > instead of >=.
Debounced_strict(now, last) == now - last > DEBOUNCE_MS
Debounced(now, last) == now - last >= DEBOUNCE_MS

\* (mutant) the two event literals exchanged: press on the rising edge.
gpio_callback_swapped(gpio, event_mask, now) ==
    LET rise == gpio = SW_0 /\ GPIO_IRQ_EDGE_RISE \in event_mask
                    /\ Debounced(now, last_ms)
        last1 == IF rise THEN now ELSE last_ms
        q1 == IF rise THEN queue_try_add(events, press_event) ELSE events
        ok1 == rise /\ ~queue_is_full(events)
        fall == gpio = SW_0 /\ GPIO_IRQ_EDGE_FALL \in event_mask
                    /\ Debounced(now, last1)
        last2 == IF fall THEN now ELSE last1
        q2 == IF fall THEN queue_try_add(q1, release_event) ELSE q1
        ok2 == fall /\ ~queue_is_full(q1)
    IN  /\ last_ms' = last2
        /\ events' = q2
        /\ published' = published
                \o (IF ok1 THEN <<press_event>> ELSE <<>>)
                \o (IF ok2 THEN <<release_event>> ELSE <<>>)
        /\ dropped' = dropped + (IF rise /\ ~ok1 THEN 1 ELSE 0)
                              + (IF fall /\ ~ok2 THEN 1 ELSE 0)
        /\ irq' = [mask |-> event_mask, now |-> now, prev |-> clock,
                   rise |-> rise, fall |-> fall]

\* (mutant) the falling edge is tested against the last_ms read on entry.
gpio_callback_stale_last(gpio, event_mask, now) ==
    LET rise == gpio = SW_0 /\ GPIO_IRQ_EDGE_RISE \in event_mask
                    /\ Debounced(now, last_ms)
        last1 == IF rise THEN now ELSE last_ms
        q1 == IF rise THEN queue_try_add(events, release_event) ELSE events
        ok1 == rise /\ ~queue_is_full(events)
        fall == gpio = SW_0 /\ GPIO_IRQ_EDGE_FALL \in event_mask
                    /\ Debounced(now, last_ms)
        last2 == IF fall THEN now ELSE last1
        q2 == IF fall THEN queue_try_add(q1, press_event) ELSE q1
        ok2 == fall /\ ~queue_is_full(q1)
    IN  /\ last_ms' = last2
        /\ events' = q2
        /\ published' = published
                \o (IF ok1 THEN <<release_event>> ELSE <<>>)
                \o (IF ok2 THEN <<press_event>> ELSE <<>>)
        /\ dropped' = dropped + (IF rise /\ ~ok1 THEN 1 ELSE 0)
                              + (IF fall /\ ~ok2 THEN 1 ELSE 0)
        /\ irq' = [mask |-> event_mask, now |-> now, prev |-> clock,
                   rise |-> rise, fall |-> fall]

gpio_callback(gpio, event_mask, now) ==
    LET rise == gpio = SW_0 /\ GPIO_IRQ_EDGE_RISE \in event_mask
                    /\ Debounced(now, last_ms)
        last1 == IF rise THEN now ELSE last_ms
        q1 == IF rise THEN queue_try_add(events, release_event) ELSE events
        ok1 == rise /\ ~queue_is_full(events)
        fall == gpio = SW_0 /\ GPIO_IRQ_EDGE_FALL \in event_mask
                    /\ Debounced(now, last1)
        last2 == IF fall THEN now ELSE last1
        q2 == IF fall THEN queue_try_add(q1, press_event) ELSE q1
        ok2 == fall /\ ~queue_is_full(q1)
    IN  /\ last_ms' = last2
        /\ events' = q2
        /\ published' = published
                \o (IF ok1 THEN <<release_event>> ELSE <<>>)
                \o (IF ok2 THEN <<press_event>> ELSE <<>>)
        /\ dropped' = dropped + (IF rise /\ ~ok1 THEN 1 ELSE 0)
                              + (IF fall /\ ~ok2 THEN 1 ELSE 0)
        /\ irq' = [mask |-> event_mask, now |-> now, prev |-> clock,
                   rise |-> rise, fall |-> fall]

\* The button's interrupt fires d ms after the previous one.
Interrupt(d, event_mask) ==
    /\ clock' = clock + d
    /\ gpio_callback(SW_0, event_mask, clock + d)
    /\ UNCHANGED <<mainOnly, rx, pending, conv, got, stored, late, started>>

Masks == {{GPIO_IRQ_EDGE_RISE}, {GPIO_IRQ_EDGE_FALL},
          {GPIO_IRQ_EDGE_RISE, GPIO_IRQ_EDGE_FALL}}


(***************************************************************************)
(* convert_and_print.  The payload starts two characters after the first   *)
(* comma.  The locals are i, the group buffer cur (j is its length) and    *)
(* what was printed; the loop runs for i = 0..len, reading the terminating *)
(* null at i = len.                                                        *)
(***************************************************************************)
NUL == "\\0"

\* strchr(line, ','): the position of the first comma, 0 when there is none.
StrChr(s, ch) ==
    IF \E k \in 1..Len(s) : s[k] = ch
    THEN CHOOSE k \in 1..Len(s) : s[k] = ch /\ \A m \in 1..(k - 1) : s[m] # ch
    ELSE 0

\* The comma is found and the pointer two past it is still inside the string
\* (at the latest on its terminating null).
WellFormed(ln) == StrChr(ln, ",") > 0 /\ StrChr(ln, ",") + 1 <= Len(ln)

\* What memory may hold where the pointer lands when it does not land in the
\* string (no comma: NULL + 2; comma last: one past the terminating null).
StrayPayloads == {<<>>, <<"?">>, <<"?", ":", "?">>}

\* The strings line_after_comma can be.
Payloads(ln) ==
    IF WellFormed(ln)
    THEN {SubSeq(ln, StrChr(ln, ",") + 2, Len(ln))}
    ELSE StrayPayloads

\* The locals on entry to the loop, for a line and the payload found in it.
ConvStart(ln, pay) ==
    [line |-> ln, pay |-> pay, i |-> 0, cur |-> <<>>, out |-> <<>>]

ConvDone(c) == c.i > Len(c.pay)

\* (mutant) the copy is guarded by j <= 4 instead of j < 4.
ConvStep_one_more(c) ==
    LET ch == IF c.i < Len(c.pay) THEN c.pay[c.i + 1] ELSE NUL
    IN  IF ch # ":" /\ Len(c.cur) <= HEX_LEN - 1
        THEN [c EXCEPT !.cur = Append(c.cur, ch), !.i = c.i + 1]
        ELSE [c EXCEPT !.out = c.out \o c.cur, !.cur = <<>>, !.i = c.i + 1]

\* One pass of the for loop (lines 206-217).
ConvStep(c) ==
    LET ch == IF c.i < Len(c.pay) THEN c.pay[c.i + 1] ELSE NUL
    IN  IF ch # ":" /\ Len(c.cur) < HEX_LEN - 1
        THEN [c EXCEPT !.cur = Append(c.cur, ch), !.i = c.i + 1]
        ELSE [c EXCEPT !.out = c.out \o c.cur, !.cur = <<>>, !.i = c.i + 1]

RECURSIVE ConvRun(_)
ConvRun(c) == IF ConvDone(c) THEN c ELSE ConvRun(ConvStep(c))

\* The characters convert_and_print prints before its final CR LF.
Converted(ln, pay) == ConvRun(ConvStart(ln, pay)).out

(***************************************************************************)
(* main: the loop of lines 64-87.  pc = "drain" is the inner while at line *)
(* 66: one queue_try_remove.  On an empty queue it returns false at once,  *)
(* main sleeps 10 ms (line 86) and comes back to the same place.  A press  *)
(* enters check_connection.                                                *)
(***************************************************************************)
\* (mutant) the front event is read but left in the queue.
main_drain_peek ==
    /\ pc = "drain"
    /\ IF events # <<>>
       THEN /\ event' = Head(events)
            /\ events' = events
            /\ drained' = Append(drained, Head(events))
            /\ IF Head(events).type = EVENT_BUTTON /\ Head(events).data = 1
               THEN /\ pc' = "cc_write"
                    /\ i' = 0
                    /\ line' = <<>>
                    /\ reads' = <<>>
                    /\ tx' = <<>>
                    /\ out' = <<>>
               ELSE UNCHANGED <<pc, i, line, reads, tx, out>>
       ELSE UNCHANGED <<pc, event, events, drained, i, line, reads, tx, out>>
    /\ UNCHANGED <<isrOnly, stage, rl_ok, rx, pending, conv,
                   got, stored, late, started>>

\* (mutant) the test of the payload is left out: any button event starts a
\* sequence.
main_drain_any_event ==
    /\ pc = "drain"
    /\ IF events # <<>>
       THEN /\ event' = Head(events)
            /\ events' = queue_try_remove(events)
            /\ drained' = Append(drained, Head(events))
            /\ IF Head(events).type = EVENT_BUTTON
               THEN /\ pc' = "cc_write"
                    /\ i' = 0
                    /\ line' = <<>>
                    /\ reads' = <<>>
                    /\ tx' = <<>>
                    /\ out' = <<>>
               ELSE UNCHANGED <<pc, i, line, reads, tx, out>>
       ELSE UNCHANGED <<pc, event, events, drained, i, line, reads, tx, out>>
    /\ UNCHANGED <<isrOnly, stage, rl_ok, rx, pending, conv,
                   got, stored, late, started>>

main_drain ==
    /\ pc = "drain"
    /\ IF events # <<>>
       THEN /\ event' = Head(events)
            /\ events' = queue_try_remove(events)
            /\ drained' = Append(drained, Head(events))
            /\ IF Head(events).type = EVENT_BUTTON /\ Head(events).data = 1
               THEN /\ pc' = "cc_write"
                    /\ i' = 0
                    /\ line' = <<>>
                    /\ reads' = <<>>
                    /\ tx' = <<>>
                    /\ out' = <<>>
               ELSE UNCHANGED <<pc, i, line, reads, tx, out>>
       ELSE UNCHANGED <<pc, event, events, drained, i, line, reads, tx, out>>
    /\ UNCHANGED <<isrOnly, stage, rl_ok, rx, pending, conv,
                   got, stored, late, started>>

\* What the stage's read_line call gave it.
ReadResult(cmd) ==
    [cmd |-> cmd, ok |-> rl_ok, line |-> IF rl_ok THEN line ELSE <<>>]

(***************************************************************************)
(* check_connection: the head of the for loop.  With attempts left it      *)
(* writes CMD_AT and calls read_line; with none left it returns false and  *)
(* main prints the failure (line 82).                                      *)
(***************************************************************************)
\* (mutant) the loop bound written with <= instead of <.
check_connection_one_more ==
    /\ pc = "cc_write"
    /\ IF i <= CONN_TRIES
       THEN /\ tx' = Append(tx, CMD_AT)
            /\ pending' = pending + 1
            /\ started' = started + (IF i = 0 THEN 1 ELSE 0)
            /\ stage' = "cc"
            /\ pc' = "rl_wait"
            /\ UNCHANGED out
       ELSE /\ out' = Append(out, MSG_NOT_RESPONDING)
            /\ pc' = "drain"
            /\ UNCHANGED <<tx, pending, started, stage>>
    /\ UNCHANGED <<events, isrOnly, event, i, line, rl_ok, rx, drained,
                   reads, conv, got, stored, late>>

check_connection ==
    /\ pc = "cc_write"
    /\ IF i < CONN_TRIES
       THEN /\ tx' = Append(tx, CMD_AT)
            /\ pending' = pending + 1
            /\ started' = started + (IF i = 0 THEN 1 ELSE 0)
            /\ stage' = "cc"
            /\ pc' = "rl_wait"
            /\ UNCHANGED out
       ELSE /\ out' = Append(out, MSG_NOT_RESPONDING)
            /\ pc' = "drain"
            /\ UNCHANGED <<tx, pending, started, stage>>
    /\ UNCHANGED <<events, isrOnly, event, i, line, rl_ok, rx, drained,
                   reads, conv, got, stored, late>>

(***************************************************************************)
(* check_connection after read_line returned: a line with "OK" ends the    *)
(* stage with success and main prints the connected message (line 71);     *)
(* anything else is the next attempt.                                      *)
(***************************************************************************)
check_connection_check ==
    /\ pc = "cc_check"
    /\ reads' = Append(reads, ReadResult(CMD_AT))
    /\ IF rl_ok /\ StrStr(line, TOK_OK)
       THEN /\ out' = Append(out, MSG_CONNECTED)
            /\ pc' = "cv_write"
            /\ UNCHANGED i
       ELSE /\ i' = i + 1
            /\ pc' = "cc_write"
            /\ UNCHANGED out
    /\ UNCHANGED <<events, isrOnly, event, stage, line, rl_ok, rx, tx, drained,
                   pending, conv,
                   got, stored, late, started>>

(***************************************************************************)
(* read_line(buffer, len = sizeof(line), 500).                             *)
(***************************************************************************)
\* Where read_line returns to.
ReturnTo(st) == CASE st = "cc" -> "cc_check"
                  [] st = "cv" -> "cv_check"
                  [] OTHER -> "cd_check"

\* (mutant) a timeout is returned as success with an empty line.
read_line_wait_empty_line ==
    /\ pc = "rl_wait"
    /\ IF rx # <<>>
       THEN /\ pc' = "rl_getc"
            /\ line' = <<>>
            /\ stored' = -1
            /\ UNCHANGED rl_ok
       ELSE /\ pc' = ReturnTo(stage)
            /\ rl_ok' = TRUE
            /\ line' = <<>>
            /\ stored' = 0
    /\ got' = <<>>
    /\ UNCHANGED <<events, isrOnly, event, i, stage, rx, tx, out, drained,
                   pending, reads, conv, late, started>>

\* The wait for the first byte (line 182): readable within the timeout, or
\* return false with the buffer untouched.
read_line_wait ==
    /\ pc = "rl_wait"
    /\ IF rx # <<>>
       THEN /\ pc' = "rl_getc"
            /\ line' = <<>>
            /\ UNCHANGED rl_ok
       ELSE /\ pc' = ReturnTo(stage)
            /\ rl_ok' = FALSE
            /\ UNCHANGED line
    /\ got' = <<>>
    /\ stored' = -1
    /\ UNCHANGED <<events, isrOnly, event, i, stage, rx, tx, out, drained,
                   pending, reads, conv, late, started>>

\* The while loop (lines 184-191) over the bytes that have arrived.  Each
\* pass takes the next byte with uart_getc: a line feed ends the loop, a
\* carriage return is skipped, any other byte is stored at buffer[i++], and
\* the loop also ends when that leaves i = len.  When the bytes run out
\* first, uart_getc waits for more.  After the loop the null is stored at
\* buffer[i] (line 192).

\* (mutant) the carriage return is stored like any other character.
Stored_keeps_cr(bytes, k) ==
    SelectSeq(SubSeq(bytes, 1, k), LAMBDA c : c # LF)

\* The characters the first k passes store.
Stored(bytes, k) ==
    SelectSeq(SubSeq(bytes, 1, k), LAMBDA c : c # CR /\ c # LF)

\* The result of the loop entered with buf in the buffer: the buffer, the
\* bytes left unread and whether the loop has ended.  last is the pass that
\* ends it, 0 when none does.
GetcRun(buf, bytes, len) ==
    LET ends == {k \in 1..Len(bytes) :
                    bytes[k] = LF \/ Len(buf) + Len(Stored(bytes, k)) >= len}
        last == IF ends = {} THEN 0
                ELSE CHOOSE k \in ends : \A m \in ends : k <= m
    IN  IF Len(buf) >= len
        THEN [line |-> buf, rest |-> bytes, done |-> TRUE]
        ELSE IF last = 0
        THEN [line |-> buf \o Stored(bytes, Len(bytes)), rest |-> <<>>,
              done |-> FALSE]
        ELSE [line |-> buf \o Stored(bytes, last),
              rest |-> SubSeq(bytes, last + 1, Len(bytes)),
              done |-> TRUE]

read_line_getc ==
    /\ pc = "rl_getc"
    /\ rx # <<>>
    /\ LET r == GetcRun(line, rx, LINE_LEN)
       IN  /\ line' = r.line
           /\ rx' = r.rest
           /\ got' = got \o SubSeq(rx, 1, Len(rx) - Len(r.rest))
           /\ IF r.done
              THEN /\ pc' = ReturnTo(stage)
                   /\ rl_ok' = TRUE
                   /\ stored' = Len(r.line)
              ELSE /\ stored' = Len(r.line) - 1
                   /\ UNCHANGED <<pc, rl_ok>>
    /\ UNCHANGED <<events, isrOnly, event, i, stage, tx, out, drained,
                   pending, reads, conv, late, started>>

(***************************************************************************)
(* check_version: write CMD_VERSION and read one line; a line with "VER"   *)
(* is printed and the stage succeeds, anything else makes main print the   *)
(* failure (line 79).                                                      *)
(***************************************************************************)
check_version ==
    /\ pc = "cv_write"
    /\ tx' = Append(tx, CMD_VERSION)
    /\ pending' = pending + 1
    /\ stage' = "cv"
    /\ line' = <<>>
    /\ pc' = "rl_wait"
    /\ UNCHANGED <<events, isrOnly, event, i, rl_ok, rx, out, drained,
                   reads, conv,
                   got, stored, late, started>>

\* (mutant) main goes on to check_dev_eui whatever check_version returned.
check_version_check_goes_on ==
    /\ pc = "cv_check"
    /\ reads' = Append(reads, ReadResult(CMD_VERSION))
    /\ IF rl_ok /\ StrStr(line, TOK_VER)
       THEN /\ out' = Append(out, Str(line))
            /\ pc' = "cd_write"
       ELSE /\ out' = Append(out, MSG_NOT_RESPONDING)
            /\ pc' = "cd_write"
    /\ UNCHANGED <<events, isrOnly, event, i, stage, line, rl_ok, rx, tx,
                   drained, pending, conv,
                   got, stored, late, started>>

check_version_check ==
    /\ pc = "cv_check"
    /\ reads' = Append(reads, ReadResult(CMD_VERSION))
    /\ IF rl_ok /\ StrStr(line, TOK_VER)
       THEN /\ out' = Append(out, Str(line))
            /\ pc' = "cd_write"
       ELSE /\ out' = Append(out, MSG_NOT_RESPONDING)
            /\ pc' = "drain"
    /\ UNCHANGED <<events, isrOnly, event, i, stage, line, rl_ok, rx, tx,
                   drained, pending, conv,
                   got, stored, late, started>>

(***************************************************************************)
(* check_dev_eui: write CMD_DEV_EUI and read one line; a line with         *)
(* "DevEui" is printed, then convert_and_print prints its payload; anything*)
(* else makes main print the failure (line 76).                            *)
(***************************************************************************)
check_dev_eui ==
    /\ pc = "cd_write"
    /\ tx' = Append(tx, CMD_DEV_EUI)
    /\ pending' = pending + 1
    /\ stage' = "cd"
    /\ line' = <<>>
    /\ pc' = "rl_wait"
    /\ UNCHANGED <<events, isrOnly, event, i, rl_ok, rx, out, drained,
                   reads, conv,
                   got, stored, late, started>>

\* (mutant) main ignores what check_dev_eui returned: no failure message.
check_dev_eui_check_silent ==
    /\ pc = "cd_check"
    /\ reads' = Append(reads, ReadResult(CMD_DEV_EUI))
    /\ IF rl_ok /\ StrStr(line, TOK_DEVEUI)
       THEN \E pay \in Payloads(line) :
                out' = out \o <<Str(line), Str(Converted(line, pay))>>
       ELSE out' = out
    /\ pc' = "drain"
    /\ UNCHANGED <<events, isrOnly, event, i, stage, line, rl_ok, rx, tx,
                   drained, pending, conv,
                   got, stored, late, started>>

check_dev_eui_check ==
    /\ pc = "cd_check"
    /\ reads' = Append(reads, ReadResult(CMD_DEV_EUI))
    /\ IF rl_ok /\ StrStr(line, TOK_DEVEUI)
       THEN \E pay \in Payloads(line) :
                out' = out \o <<Str(line), Str(Converted(line, pay))>>
       ELSE out' = Append(out, MSG_NOT_RESPONDING)
    /\ pc' = "drain"
    /\ UNCHANGED <<events, isrOnly, event, i, stage, line, rl_ok, rx, tx,
                   drained, pending, conv,
                   got, stored, late, started>>

(***************************************************************************)
(* The LoRa module: while the client is in read_line and no byte is        *)
(* unread, it may answer a command it has not answered yet with one of     *)
(* Replies: the n-th oldest of them, giving up the older ones.  With       *)
(* n = pending it answers the command just written, with a smaller n an    *)
(* earlier one, late.  A reply to another command is the wrong text for    *)
(* the stage that reads it, and so is an identity line without a comma.    *)
(***************************************************************************)
R_OK == <<"+", "A", "T", ":", " ", "O", "K", CR, LF>>
R_VER == <<"+", "V", "E", "R", ":", " ", "4", ".", "0", CR, LF>>
R_ID == <<"+", "I", "D", ":", " ", "D", "e", "v", "E", "u", "i", ",", " ",
          "D", "E", ":", "A", "D", ":", "B", "E", ":", "E", "F", ":",
          "0", "0", ":", "1", "1", ":", "2", "2", ":", "3", "3", CR, LF>>

Replies == {R_OK, R_VER, R_ID}

\* An identity line with the token and no comma.
R_BARE == <<"+", "I", "D", ":", " ", "D", "e", "v", "E", "u", "i", CR, LF>>
\* The beginning of a line, with no line feed.
R_PART == <<"+", CR>>

\* A reply of two lines: an empty one, then the "OK".
R_TWO == <<CR, LF>> \o R_OK

\* What a module that misbehaves may send as well.
OddReplies == Replies \cup {R_BARE, R_PART, R_TWO}

Responder(n, r) ==
    /\ pc \in {"rl_wait", "rl_getc"}
    /\ rx = <<>>
    /\ n >= 1
    /\ n <= pending
    /\ pending' = pending - n
    /\ rx' = rx \o r
    /\ late' = (n < pending \/ (pc = "rl_getc" /\ late))
    /\ UNCHANGED <<events, isrOnly, mainOnly, conv, got, stored, started>>

(***************************************************************************)
(* Initial state: after ini_button and the UART set-up, before the loop.   *)
(***************************************************************************)
NoEvent == [type |-> "none", data |-> 0]
NoIrq == [mask |-> {}, now |-> 0, prev |-> 0, rise |-> FALSE, fall |-> FALSE]

InitProgram ==
    /\ events = queue_init
    /\ last_ms = 0
    /\ pc = "drain"
    /\ event = NoEvent
    /\ i = 0
    /\ stage = "cc"
    /\ line = <<>>
    /\ rl_ok = FALSE
    /\ rx = <<>>
    /\ tx = <<>>
    /\ out = <<>>
    /\ clock = 0
    /\ irq = NoIrq
    /\ published = <<>>
    /\ drained = <<>>
    /\ dropped = 0
    /\ pending = 0
    /\ reads = <<>>
    /\ got = <<>>
    /\ stored = -1
    /\ late = FALSE
    /\ started = 0

Init ==
    /\ InitProgram
    /\ conv = ConvStart(<<>>, <<>>)

(***************************************************************************)
(* SpecQueue: the interrupt against the main loop with a module that never *)
(* answers.  Edges come one debounce period apart, for MaxBurst periods.    *)
(***************************************************************************)
Presses(q) == Cardinality({k \in 1..Len(q) : q[k].data = 1})

BurstInterrupt ==
    \E m \in Masks :
        /\ clock + DEBOUNCE_MS <= MaxBurst * DEBOUNCE_MS
        /\ m = {GPIO_IRQ_EDGE_FALL} => Presses(published) < MaxPresses
        /\ Interrupt(DEBOUNCE_MS, m)

SilentMain ==
    \/ main_drain
    \/ check_connection
    \/ read_line_wait
    \/ check_connection_check

NextQueue == BurstInterrupt \/ SilentMain

SpecQueue == Init /\ [][NextQueue]_vars

(***************************************************************************)
(* SpecDebounce: the same program with edges 1, 19 or 20 ms after the      *)
(* previous one, up to MaxFineTime ms after boot.                          *)
(***************************************************************************)
FineSteps == {1, DEBOUNCE_MS - 1, DEBOUNCE_MS}

FineInterrupt ==
    \E d \in FineSteps, m \in Masks :
        /\ clock + d <= MaxFineTime
        /\ Interrupt(d, m)

NextDebounce == FineInterrupt \/ SilentMain

SpecDebounce == Init /\ [][NextDebounce]_vars

(***************************************************************************)
(* Properties of the event pipeline.                                       *)
(***************************************************************************)
\* A step of the interrupt handler (every interrupt of SpecQueue and of
\* SpecDebounce comes later than the previous one).
IsInterrupt == clock' # clock

\* The events the step's queue_try_add calls accepted.
NewlyPublished == SubSeq(published', Len(published) + 1, Len(published'))

\* C1: in every reachable state the events drained so far, followed by the
\* events still queued, are exactly the events published so far, in publish
\* order: what is drained is a prefix of what was published, with nothing
\* drained twice, reordered or skipped.
C1_DrainedIsPublishOrder == published = drained \o events

C1_Witness ==
    /\ Len(drained) >= 3
    /\ Presses(drained) = 1
    /\ drained[1].data = 0
    /\ events # <<>>
    /\ pc = "drain"

\* C2: the queue never holds more than 32 events, and a handler step that
\* starts with 32 events queued leaves the queue and the published history
\* as they are, counts one failed queue_try_add and returns in that same
\* step; the events drained and queued are at all times as many as the
\* published ones, so a dropped event is never drained.
C2_FullQueueDrops ==
    /\ [](Len(events) <= 32 /\ Len(drained) + Len(events) = Len(published))
    /\ [][(IsInterrupt /\ Len(events) = 32)
            => /\ events' = events
               /\ published' = published
               /\ dropped' = dropped + 1]_vars

C2_Witness ==
    /\ dropped > 0
    /\ Len(events) = 32
    /\ Len(drained) > 0
    /\ Len(published) = Len(drained) + 32

\* C4: every event a handler step publishes has type EVENT_BUTTON; it
\* carries data 1 exactly when the step accepted the falling edge and data 0
\* exactly when it accepted the rising edge; and a step that accepts an edge
\* sets last_ms to its now, also when the queue is full and nothing is
\* published.
C4_PayloadAndTimestamp ==
    [][IsInterrupt =>
        /\ \A k \in 1..Len(NewlyPublished) :
              /\ NewlyPublished[k].type = EVENT_BUTTON
              /\ NewlyPublished[k].data \in {0, 1}
              /\ NewlyPublished[k].data = 1 <=>
                    (irq'.fall /\ GPIO_IRQ_EDGE_FALL \in irq'.mask)
              /\ NewlyPublished[k].data = 0 <=>
                    (irq'.rise /\ GPIO_IRQ_EDGE_RISE \in irq'.mask)
        /\ (irq'.rise \/ irq'.fall) => last_ms' = irq'.now
        /\ (irq'.rise \/ irq'.fall) /\ Len(events) < 32
              => Len(NewlyPublished) = 1]_vars

\* A press accepted on a full queue: nothing published, last_ms written.
C4_Witness ==
    /\ Len(events) = 32
    /\ Len(published) = 32
    /\ published[1] = release_event
    /\ dropped = 1
    /\ irq.fall
    /\ irq.mask = {GPIO_IRQ_EDGE_FALL}
    /\ last_ms = irq.now
    /\ last_ms = 33 * DEBOUNCE_MS

\* C3 as stated, for the transitions that follow the first published event:
\* of two consecutive transitions less than 20 ms apart the second is
\* discarded, leaving last_ms and the queue as they were; a transition at
\* least 20 ms after the previous one emits its own event.
C3_AsStated ==
    [][(IsInterrupt /\ published # <<>>) =>
        LET sep == irq'.now - irq'.prev
        IN  /\ sep < DEBOUNCE_MS =>
                  /\ ~(irq'.rise \/ irq'.fall)
                  /\ last_ms' = last_ms
                  /\ events' = events
            /\ sep >= DEBOUNCE_MS => Len(NewlyPublished) = 1]_vars

\* C3 (amended): the window is measured from the last accepted transition
\* (from boot while none was accepted).  A transition less than 20 ms after
\* it is discarded and changes neither last_ms nor the queue; a transition
\* at least 20 ms after it is accepted, sets last_ms to its time and
\* publishes exactly one event (none when the queue is full), also when the
\* mask carries both edges.
C3_WindowFromLastAccepted ==
    [][IsInterrupt =>
        LET elapsed == irq'.now - last_ms
        IN  /\ elapsed < DEBOUNCE_MS =>
                  /\ ~(irq'.rise \/ irq'.fall)
                  /\ last_ms' = last_ms
                  /\ events' = events
                  /\ published' = published
            /\ elapsed >= DEBOUNCE_MS =>
                  /\ irq'.rise \/ irq'.fall
                  /\ last_ms' = irq'.now
                  /\ Len(NewlyPublished) = (IF Len(events) < 32 THEN 1 ELSE 0)
                  /\ events' = events \o NewlyPublished]_vars

\* A transition accepted 1 ms after a discarded one, both more than 20 ms
\* after boot.
C3_Witness ==
    /\ irq.now - irq.prev < DEBOUNCE_MS
    /\ irq.rise \/ irq.fall
    /\ last_ms = irq.now
    /\ Len(published) = 2

(***************************************************************************)
(* Spec: the whole program against a module that answers, with up to       *)
(* MaxEdges button edges one debounce period apart.                        *)
(***************************************************************************)
EdgeInterrupt ==
    \E m \in Masks :
        /\ clock + DEBOUNCE_MS <= MaxEdges * DEBOUNCE_MS
        /\ Interrupt(DEBOUNCE_MS, m)

Module == \E n \in 1..pending, r \in Replies : Responder(n, r)

OddModule == \E n \in 1..pending, r \in OddReplies : Responder(n, r)

Next ==
    \/ EdgeInterrupt
    \/ main_drain
    \/ check_connection
    \/ read_line_wait
    \/ read_line_getc
    \/ check_connection_check
    \/ check_version
    \/ check_version_check
    \/ check_dev_eui
    \/ check_dev_eui_check
    \/ Module

Spec == Init /\ [][Next]_vars

(***************************************************************************)
(* SpecSession: the main loop from the moment the interrupt has published  *)
(* one press, 20 ms after boot, against a module that may also send a      *)
(* malformed identity line or a line without its end.  SpecSessionFair      *)
(* adds that the main loop, which nothing preempts for good, takes its     *)
(* next step whenever it has one: a step of read_line_getc needs a byte.   *)
(***************************************************************************)
InitSession ==
    /\ events = <<press_event>>
    /\ published = <<press_event>>
    /\ last_ms = DEBOUNCE_MS
    /\ clock = DEBOUNCE_MS
    /\ irq = [mask |-> {GPIO_IRQ_EDGE_FALL}, now |-> DEBOUNCE_MS, prev |-> 0,
              rise |-> FALSE, fall |-> TRUE]
    /\ pc = "drain"
    /\ event = NoEvent
    /\ i = 0
    /\ stage = "cc"
    /\ line = <<>>
    /\ rl_ok = FALSE
    /\ rx = <<>>
    /\ tx = <<>>
    /\ out = <<>>
    /\ drained = <<>>
    /\ dropped = 0
    /\ pending = 0
    /\ reads = <<>>
    /\ got = <<>>
    /\ stored = -1
    /\ late = FALSE
    /\ started = 0
    /\ conv = ConvStart(<<>>, <<>>)

MainStep ==
    \/ main_drain
    \/ check_connection
    \/ read_line_wait
    \/ read_line_getc
    \/ check_connection_check
    \/ check_version
    \/ check_version_check
    \/ check_dev_eui
    \/ check_dev_eui_check

NextSession == MainStep \/ OddModule

SpecSession == InitSession /\ [][NextSession]_vars

SpecSessionFair == SpecSession /\ WF_vars(MainStep)

(***************************************************************************)
(* SpecRead: one call of read_line, the one of check_connection's first    *)
(* attempt, on an inbound byte stream that is all the module ever sends:   *)
(* every stream of up to MaxStreamLen bytes out of a letter, CR and LF,     *)
(* and streams around LINE_LEN characters long.  SpecReadFair adds that    *)
(* read_line takes its next step whenever it has one.                      *)
(***************************************************************************)
Letters(n) == [k \in 1..n |-> "x"]

LongStreams ==
    {Letters(LINE_LEN - 1) \o <<CR, LF>>,
     Letters(LINE_LEN - 1),
     Letters(LINE_LEN) \o <<CR, LF>>,
     Letters(LINE_LEN),
     <<CR>> \o Letters(LINE_LEN - 1) \o <<CR, "y", "z", LF>>,
     Letters(LINE_LEN + 1) \o <<LF>>}

Streams == SeqsUpTo({"a", CR, LF}, MaxStreamLen) \cup LongStreams

InitRead ==
    /\ events = <<>>
    /\ published = <<press_event>>
    /\ drained = <<press_event>>
    /\ last_ms = DEBOUNCE_MS
    /\ clock = DEBOUNCE_MS
    /\ irq = [mask |-> {GPIO_IRQ_EDGE_FALL}, now |-> DEBOUNCE_MS, prev |-> 0,
              rise |-> FALSE, fall |-> TRUE]
    /\ pc = "rl_wait"
    /\ event = press_event
    /\ i = 0
    /\ stage = "cc"
    /\ line = <<>>
    /\ rl_ok = FALSE
    /\ rx \in Streams
    /\ tx = <<CMD_AT>>
    /\ out = <<>>
    /\ dropped = 0
    /\ pending = 0
    /\ reads = <<>>
    /\ got = <<>>
    /\ stored = -1
    /\ late = FALSE
    /\ started = 1
    /\ conv = ConvStart(<<>>, <<>>)

NextRead == read_line_wait \/ read_line_getc

SpecRead == InitRead /\ [][NextRead]_vars

SpecReadFair == SpecRead /\ WF_vars(NextRead)

(***************************************************************************)
(* SpecFormat: convert_and_print on its own, pass by pass, for the spec's  *)
(* two example lines, for every line "+ID: DevEui, " followed by up to     *)
(* MaxPayloadLen characters out of A, B and the colon, and for a line      *)
(* without a comma.                                                        *)
(***************************************************************************)
LABEL == <<"+", "I", "D", ":", " ", "D", "e", "v", "E", "u", "i">>

EXAMPLE_PAYLOAD ==
    <<"A", "B", ":", "C", "D", ":", "E", "F", ":", "0", "1", ":",
      "2", "3", ":", "4", "5", ":", "6", "7", ":", "8", "9">>

FormatPayloads ==
    SeqsUpTo({"A", "B", ":"}, MaxPayloadLen)
        \cup {EXAMPLE_PAYLOAD, SubSeq(R_ID, 14, Len(R_ID) - 2)}

\* The lines with a payload, and the label alone: a line without a comma.
FormatLines == {LABEL \o <<",", " ">> \o p : p \in FormatPayloads} \cup {LABEL}

InitFormat ==
    /\ InitProgram
    /\ conv \in UNION {{ConvStart(ln, pay) : pay \in Payloads(ln)} :
                          ln \in FormatLines}

\* One pass of convert_and_print's loop.
convert_and_print ==
    /\ ~ConvDone(conv)
    /\ conv' = ConvStep(conv)
    /\ UNCHANGED <<events, isrOnly, mainOnly, rx, pending, got, stored, late, started>>

NextFormat == convert_and_print

SpecFormat == InitFormat /\ [][NextFormat]_vars

(***************************************************************************)
(* Properties of the Identifier Formatter.                                 *)
(***************************************************************************)
NoColons(s) == SelectSeq(s, LAMBDA c : c # ":")

\* The colon-delimited groups of a payload, in order.
RECURSIVE Groups(_)
Groups(s) ==
    IF StrChr(s, ":") = 0 THEN <<s>>
    ELSE <<SubSeq(s, 1, StrChr(s, ":") - 1)>>
            \o Groups(SubSeq(s, StrChr(s, ":") + 1, Len(s)))

RECURSIVE Flatten(_)
Flatten(gs) == IF gs = <<>> THEN <<>> ELSE Head(gs) \o Flatten(Tail(gs))

First4(g) == SubSeq(g, 1, IF Len(g) < 4 THEN Len(g) ELSE 4)

Capped(gs) == [k \in 1..Len(gs) |-> First4(gs[k])]

GroupsAtMost4(s) == \A k \in 1..Len(Groups(s)) : Len(Groups(s)[k]) <= 4

\* C8: for a line "<label>, <groups>" whose groups have at most 4 characters
\* convert_and_print prints all the groups, the last one included, in order
\* and without the colons.
C8_AllGroupsPrinted ==
    (ConvDone(conv) /\ WellFormed(conv.line) /\ GroupsAtMost4(conv.pay))
        => conv.out = Flatten(Groups(conv.pay))

\* C10: a group of more than 4 characters contributes its first 4 characters
\* and nothing else, and the groups after it are printed as they are.  Stated
\* for the payloads that end in a colon, whose last group is closed.
C10_LongGroupCut ==
    (/\ ConvDone(conv)
     /\ WellFormed(conv.line)
     /\ conv.pay # <<>>
     /\ conv.pay[Len(conv.pay)] = ":")
        => conv.out = Flatten(Capped(Groups(conv.pay)))

(***************************************************************************)
(* Properties of the AT sequence.  A sequence is what main does for one    *)
(* drained press; tx and out are the commands it has written and the lines *)
(* it has printed, reads what its read_line calls returned.                *)
(***************************************************************************)

Count(x, q) == Cardinality({k \in 1..Len(q) : q[k] = x})

\* The read returned a line that contains the token.
Has(rd, tok) == rd.ok /\ StrStr(rd.line, tok)

ReadsOf(cmd) == SelectSeq(reads, LAMBDA rd : rd.cmd = cmd)

\* The attempt whose read first returned a line with "OK", 0 when none has.
FirstOK ==
    LET at == ReadsOf(CMD_AT)
    IN  IF \E k \in 1..Len(at) : Has(at[k], TOK_OK)
        THEN CHOOSE k \in 1..Len(at) :
                /\ Has(at[k], TOK_OK)
                /\ \A m \in 1..(k - 1) : ~Has(at[m], TOK_OK)
        ELSE 0

InConnectivity ==
    \/ pc \in {"cc_write", "cc_check"}
    \/ pc \in {"rl_wait", "rl_getc"} /\ stage = "cc"

SequenceOver == pc = "drain" /\ reads # <<>>

ConnOK == FirstOK > 0
VersionOK == \E k \in 1..Len(reads) :
                reads[k].cmd = CMD_VERSION /\ Has(reads[k], TOK_VER)
IdentityOK == \E k \in 1..Len(reads) :
                reads[k].cmd = CMD_DEV_EUI /\ Has(reads[k], TOK_DEVEUI)

\* A stage of the sequence has failed: five attempts without "OK", or the
\* version or identity read without its token.
StageFailed ==
    \/ Len(ReadsOf(CMD_AT)) >= 5 /\ ~ConnOK
    \/ ReadsOf(CMD_VERSION) # <<>> /\ ~VersionOK
    \/ ReadsOf(CMD_DEV_EUI) # <<>> /\ ~IdentityOK

\* C5: the connectivity stage never writes more than 5 "AT"; when the read
\* of attempt k is the first to return a line with "OK", the stage has made
\* exactly k send/read cycles, has succeeded and writes no further "AT";
\* and when the stage is left without any such read, it has made exactly 5
\* cycles and the sequence has ended with the failure message.
C5_ConnectivityCycles ==
    LET cycles == Count(CMD_AT, tx)
    IN  /\ cycles <= 5
        /\ FirstOK > 0 =>
              /\ cycles = FirstOK
              /\ Len(ReadsOf(CMD_AT)) = FirstOK
              /\ ~InConnectivity
              /\ out # <<>> /\ out[1] = MSG_CONNECTED
        /\ (FirstOK = 0 /\ ~InConnectivity /\ reads # <<>>) =>
              /\ cycles = 5
              /\ Len(reads) = 5
              /\ pc = "drain"
              /\ out = <<MSG_NOT_RESPONDING>>

\* The third attempt is the first with "OK", after a timeout and a wrong text.
C5_Witness ==
    /\ FirstOK = 3
    /\ ~reads[1].ok
    /\ reads[2].ok
    /\ pc = "cv_write"
    /\ tx = <<CMD_AT, CMD_AT, CMD_AT>>

\* C6: the commands of a sequence are 1 to 5 "AT", then at most one version
\* query, then at most one identity query; the version query is there only
\* if an "AT" read returned "OK", the identity query only if the version
\* read returned a line with "VER"; and once a stage has failed, the failing
\* read belongs to the last command the sequence ever writes.
C6_StagesInOrder ==
    /\ \E k \in 0..5 :
          /\ k <= Len(tx)
          /\ \A m \in 1..k : tx[m] = CMD_AT
          /\ SubSeq(tx, k + 1, Len(tx))
                \in {<<>>, <<CMD_VERSION>>, <<CMD_VERSION, CMD_DEV_EUI>>}
          /\ Len(tx) > k => k >= 1
    /\ Count(CMD_VERSION, tx) > 0 => ConnOK
    /\ Count(CMD_DEV_EUI, tx) > 0 => ConnOK /\ VersionOK
    /\ StageFailed =>
          /\ Len(tx) = Len(reads)
          /\ tx[Len(tx)] = reads[Len(reads)].cmd
          /\ pc \in {"drain", "cc_write"}

\* A sequence that passed connectivity on its second attempt, passed the
\* version stage and failed the identity stage.
C6_Witness ==
    /\ SequenceOver
    /\ tx = <<CMD_AT, CMD_AT, CMD_VERSION, CMD_DEV_EUI>>
    /\ StageFailed
    /\ ConnOK /\ VersionOK

\* C7: a sequence prints "Module not responding" at most once; a finished
\* sequence has printed it once if one of its stages failed and not at all
\* if all three succeeded; and "Connected to LoRa module" is printed, once,
\* exactly when an "AT" read returned a line with "OK".
C7_FailureReportedOnce ==
    /\ Count(MSG_NOT_RESPONDING, out) <= 1
    /\ Count(MSG_NOT_RESPONDING, out) = 1 => SequenceOver /\ StageFailed
    /\ SequenceOver =>
          /\ StageFailed \/ (ConnOK /\ VersionOK /\ IdentityOK)
          /\ Count(MSG_NOT_RESPONDING, out) = (IF StageFailed THEN 1 ELSE 0)
    /\ Count(MSG_CONNECTED, out) = (IF ConnOK THEN 1 ELSE 0)

\* The identity stage fails on a wrong text after a timeout in the
\* connectivity stage: one failure message, after the connected message and
\* the version line.
C7_Witness ==
    /\ SequenceOver
    /\ Len(reads) = 4
    /\ ~reads[1].ok
    /\ reads[4].cmd = CMD_DEV_EUI /\ reads[4].ok /\ ~IdentityOK
    /\ Len(out) = 3
    /\ out[1] = MSG_CONNECTED
    /\ out[3] = MSG_NOT_RESPONDING

\* The lines the module's replies are read as.
LineOf(reply) == SelectSeq(reply, LAMBDA c : c # CR /\ c # LF)

\* C9: a sequence whose three reads returned the "OK" line, the version line
\* and the identity line "+ID: DevEui, DE:AD:BE:EF:00:11:22:33" has printed
\* the connected message, the version line, the identity line and
\* DEADBEEF00112233, in this order and nothing else.
C9_EndToEnd ==
    (/\ SequenceOver
     /\ reads = <<[cmd |-> CMD_AT, ok |-> TRUE, line |-> LineOf(R_OK)],
                  [cmd |-> CMD_VERSION, ok |-> TRUE, line |-> LineOf(R_VER)],
                  [cmd |-> CMD_DEV_EUI, ok |-> TRUE, line |-> LineOf(R_ID)]>>)
        => out = <<MSG_CONNECTED, Str(LineOf(R_VER)), Str(LineOf(R_ID)),
                      "DEADBEEF00112233">>

(***************************************************************************)
(* Malformed identity lines.                                               *)
(***************************************************************************)
\* The line has no comma, or fewer than two characters after its comma.
Malformed(ln) == StrChr(ln, ",") = 0 \/ Len(ln) - StrChr(ln, ",") < 2

\* C11: a sequence whose identity read returned a line with "DevEui" that is
\* malformed has ended with the failure message as its last printed line:
\* the stage failed and no formatted identifier was printed after the line.
C11_MalformedFailsExplicitly ==
    (/\ SequenceOver
     /\ reads[Len(reads)].cmd = CMD_DEV_EUI
     /\ Has(reads[Len(reads)], TOK_DEVEUI)
     /\ Malformed(reads[Len(reads)].line))
        => /\ out[Len(out)] = MSG_NOT_RESPONDING
           /\ Count(MSG_NOT_RESPONDING, out) = 1

(***************************************************************************)
(* Properties of read_line.                                                *)
(***************************************************************************)
Returned == pc \in {"cc_check", "cv_check", "cd_check"}

\* A step in which read_line returns.
Returns == pc \in {"rl_wait", "rl_getc"} /\ pc' \notin {"rl_wait", "rl_getc"}

\* C12: the call of read_line returns, whatever the inbound byte stream is.
C12_ReadLineReturns == <>Returned

\* C13: read_line returns from its wait exactly when no byte is readable,
\* and then it returns false, has taken no byte and has left the buffer as
\* it was; the stage that gets false goes to its next attempt (connectivity)
\* or ends the sequence with the failure message without looking at the
\* buffer; and a read_line that returned true has taken at least one byte.
C13_TimeoutIsFailure ==
    /\ [][(pc = "rl_wait" /\ pc' # pc) =>
            IF rx = <<>>
            THEN /\ pc' = ReturnTo(stage)
                 /\ ~rl_ok'
                 /\ rx' = rx
                 /\ line' = line
                 /\ got' = <<>>
                 /\ stored' = -1
            ELSE pc' = "rl_getc"]_vars
    /\ [][(Returned /\ ~rl_ok /\ pc' # pc) =>
            /\ ~reads'[Len(reads')].ok
            /\ IF pc = "cc_check"
               THEN pc' = "cc_write" /\ i' = i + 1 /\ out' = out
               ELSE pc' = "drain" /\ out' = Append(out, MSG_NOT_RESPONDING)]_vars
    /\ [](Returned /\ rl_ok => got # <<>>)
    /\ [](Returned /\ ~rl_ok => got = <<>> /\ stored = -1)

\* The version read timed out after a connectivity stage that got its "OK"
\* at once; the buffer still holds nothing of this call.
C13_Witness ==
    /\ pc = "cv_check"
    /\ ~rl_ok
    /\ got = <<>>
    /\ Len(reads) = 1
    /\ reads[1].ok

\* The bytes of s before its first line feed (all of s when it has none).
BeforeLF(s) == IF StrChr(s, LF) = 0 THEN s ELSE SubSeq(s, 1, StrChr(s, LF) - 1)

NoCR(s) == SelectSeq(s, LAMBDA c : c # CR)

\* C14: when read_line has returned true, the line is the bytes it took
\* before the first line feed, without the carriage returns and in arrival
\* order; it took nothing after the line feed; and it returned without a
\* line feed only with LINE_LEN characters in the line, which it returns as
\* a line.
C14_LineIsBytesBeforeLF ==
    (Returned /\ rl_ok) =>
        /\ line = NoCR(BeforeLF(got))
        /\ StrChr(got, LF) \in {0, Len(got)}
        /\ StrChr(got, LF) = 0 => Len(line) = LINE_LEN
        /\ Len(line) <= LINE_LEN

\* A line cut at LINE_LEN characters, with a carriage return taken out and
\* bytes left unread.
C14_Witness ==
    /\ Returned /\ rl_ok
    /\ Len(line) = LINE_LEN
    /\ StrChr(got, LF) = 0
    /\ StrChr(got, CR) > 0
    /\ rx # <<>>

\* C18: every store of read_line into the LINE_LEN-byte buffer is at an
\* index in 0..LINE_LEN-1, the store of the terminating null included.
C18_StoresInBuffer == stored <= LINE_LEN - 1

(***************************************************************************)
(* Properties of the exchange with the module.                             *)
(***************************************************************************)
\* A step that writes a command.
Writes == Len(tx') = Len(tx) + 1

\* C15: when a command is written no byte of an earlier reply is unread,
\* and a line that read_line returns holds no byte of a reply to an earlier
\* command than the one the stage has just written.
C15_OneExchangeInFlight ==
    /\ [][Writes => rx = <<>>]_vars
    /\ [][(Returns /\ rl_ok') => ~late]_vars

\* C16: a sequence that has started finishes, and a queued event is drained.
C16_SequenceFinishes ==
    /\ (pc # "drain") ~> (pc = "drain")
    /\ (events # <<>>) ~> (events = <<>>)

(***************************************************************************)
(* Properties of the main loop.                                            *)
(***************************************************************************)
\* A step of main that takes an event out of the queue.
Drains == Len(drained') = Len(drained) + 1

\* The drained press whose sequence has not written its first command yet.
AboutToStart == IF pc = "cc_write" /\ i = 0 THEN 1 ELSE 0

\* C17: the sequences started are as many as the presses drained; an event
\* is drained only between two sequences; draining a release writes no
\* command, prints nothing and starts nothing; main leaves the drain loop
\* only by draining a press, so a finished sequence is not run again; and
\* an interrupt during a sequence leaves the sequence as it is.
C17_OneSequencePerPress ==
    /\ [](started + AboutToStart = Presses(drained))
    /\ [][Drains => pc = "drain"]_vars
    /\ [][(Drains /\ Head(events).data = 0) =>
            /\ pc' = "drain"
            /\ UNCHANGED <<tx, out, started, pending>>]_vars
    /\ [][(pc = "drain" /\ pc' # "drain") =>
            /\ Drains
            /\ Head(events) = press_event
            /\ pc' = "cc_write"]_vars
    /\ [][(IsInterrupt /\ pc # "drain") =>
            UNCHANGED <<pc, tx, out, started, drained>>]_vars

\* Two sequences have run and failed, one for each of two presses, with a
\* release drained between them.
C17_Witness ==
    /\ started = 2
    /\ drained = <<press_event, release_event, press_event>>
    /\ pc = "drain"
    /\ out = <<MSG_NOT_RESPONDING>>

(***************************************************************************)
(* The handler on a mask with both edges.                                  *)
(***************************************************************************)
BothEdges == {GPIO_IRQ_EDGE_RISE, GPIO_IRQ_EDGE_FALL}

\* C19: a handler step publishes at most one event; on a mask with both
\* edges it never accepts the falling edge and publishes no press; and when
\* the debounce test passes it accepts the rising edge, sets last_ms to now
\* and publishes the release (nothing when the queue is full).
C19_BothEdgesOneEvent ==
    [][IsInterrupt =>
        /\ Len(NewlyPublished) <= 1
        /\ irq'.mask = BothEdges =>
              /\ ~irq'.fall
              /\ \A k \in 1..Len(NewlyPublished) :
                    NewlyPublished[k] = release_event
              /\ Debounced(irq'.now, last_ms) =>
                    /\ irq'.rise
                    /\ last_ms' = irq'.now
                    /\ Len(events) < 32 => NewlyPublished = <<release_event>>
              /\ ~Debounced(irq'.now, last_ms) =>
                    /\ ~irq'.rise
                    /\ NewlyPublished = <<>>
                    /\ last_ms' = last_ms]_vars

\* A press, then a mask with both edges a debounce period later: the release
\* is published and the falling edge discarded.
C19_Witness ==
    /\ irq.mask = BothEdges
    /\ irq.rise /\ ~irq.fall
    /\ last_ms = irq.now
    /\ published = <<press_event, release_event>>

(***************************************************************************)
(* The group buffer of convert_and_print: char current_hexadecimal[5],     *)
(* written at index j, which is the length of conv.cur.                    *)
(***************************************************************************)
\* C20: j is in 0..4 in every state of the loop, so the copies and the null
\* are stored at indices 0..4 of the 5-byte buffer; a pass either adds one
\* character or sets j to 0; and a pass that prints characters sets j to 0.
C20_GroupIndexInBounds ==
    /\ [](Len(conv.cur) \in 0..(HEX_LEN - 1))
    /\ [][conv' # conv =>
            /\ Len(conv'.cur) = Len(conv.cur) + 1 \/ Len(conv'.cur) = 0
            /\ conv'.out # conv.out => Len(conv'.cur) = 0]_vars

\* A group of more than 4 characters: the pass on its fifth character has
\* found j = 4, printed the four and set j to 0.
C20_Witness ==
    /\ conv.i = 5
    /\ conv.cur = <<>>
    /\ Len(conv.out) = 4
    /\ StrChr(conv.pay, ":") = 0
    /\ Len(conv.pay) >= 6

=============================================================================
